---- MODULE Spec2Model ----
(***************************************************************************)
(* A model of the observation-to-model matching pipeline of cfobs:         *)
(*   - table_of_stations.update_stations_info (the station registry),      *)
(*   - the station identity scalar (lat+90)*1e7 + (lon+180),               *)
(*   - add_cf_to_obs.add_cf / _add_cf_data_to_df (the matcher) with        *)
(*     units.get_conv_ugm3_to_ppbv and units.to_ppbv.                      *)
(*                                                                         *)
(* Numbers.  Coordinates are fixed-point integers: raw coordinates in      *)
(* units of 1e-5 degree, rounded coordinates in units of 1e-4 degree.  A   *)
(* latlon_id is the pair <<integer part, 4-digit fraction>> of the scalar. *)
(* A float column that may hold NaN is modelled as a sequence: <<v>> is    *)
(* the finite value v and <<>> is NaN.                                     *)
(***************************************************************************)
EXTENDS Integers, Sequences, FiniteSets, TLC

VARIABLES
    pc,         \* which operation the run is in / how far it got
    st,         \* the stations table (registry), a sequence of entries
    st_arg,     \* the stations table passed to the last update_stations_info
    has_grid,   \* TRUE when the caller passes grid lats/lons, FALSE for None
    df_arg,     \* the observation rows passed to the last update_stations_info
    df_ret,     \* the rows returned by the last update_stations_info
    ncalls,     \* number of update_stations_info calls made so far
    coords,     \* SpecId: the two rounded coordinate pairs under comparison
    ids,        \* SpecId: their latlon_id values, once computed
    df_in,      \* add_cf: the caller's observation table (raw rows)
    map_config, \* add_cf: the 'mapping' section, a sequence of entries
    cf_config,  \* add_cf: the variable names the collections define
    df_cf,      \* add_cf: the working table df (aggregated rows)
    hours,      \* add_cf: the hours the loop still has to visit
    reads,      \* add_cf: the read_cf_data_2d calls made, with their results
    result,     \* add_cf: what the call returned
    exc,        \* add_cf: the exception that ended the call, if any
    dates,      \* seasons: the ISO8601 column of the table given to set_season
    seasons,    \* seasons: the season column set_season wrote
    season_names, \* seasons: get_season_name of each season number
    ppbv_df,    \* to_ppbv: the table df it is given
    ppbv_idx,   \* to_ppbv: the index idx (row numbers) it is given
    ppbv_conv,  \* to_ppbv: the conversion factor it is given, or None
    ppbv_ret,   \* to_ppbv: the table it returned, or its exception
    rd_config,  \* read_cf_data_2d: the collections of config, in order, each
                \* with the file its template resolves to
    rd_idate,   \* read_cf_data_2d: idate, in hours
    rd_ret,     \* read_cf_data_2d: the (rc, dat) it returned
    st_file,    \* write_table_of_stations: the stations file, once written
    idat,       \* compute_metrics_by_location: the table idat it is given
    mt_args,    \* compute_metrics_by_location: season_number and minnobs
    mt_ret,     \* compute_metrics_by_location: the table it returned
    fs,         \* save: the files on disk, by name
    default_opened_files, \* save: the list object of its default argument
    opened_files, \* read_obs: its local list of opened files
    append_to_ofile, \* read_obs: its argument append_to_ofile
    sv_calls,   \* save: the number of save calls made so far
    sv_last     \* save: what the last call was given and did

stvars == <<st, st_arg, has_grid, df_arg, df_ret, ncalls>>
idvars == <<coords, ids>>
matchvars == <<df_in, map_config, cf_config, df_cf, hours, reads, result, exc>>
seasonvars == <<dates, seasons, season_names>>
unitvars == <<ppbv_df, ppbv_idx, ppbv_conv, ppbv_ret>>
readvars == <<rd_config, rd_idate, rd_ret>>
filevars == <<st_file>>
funvars == <<seasonvars, unitvars, readvars, filevars>>
statvars == <<idat, mt_args, mt_ret>>
savevars == <<fs, default_opened_files, opened_files, append_to_ofile, sv_calls,
              sv_last>>
aggvars == <<statvars, savevars>>
vars == <<pc, stvars, idvars, matchvars, funvars, aggvars>>

(***************************************************************************)
(* Bounds of the model.                                                    *)
(***************************************************************************)
MaxRows  == 2     \* rows of one batch handed to update_stations_info
MaxCalls == 2     \* update_stations_info calls in one run
MaxObs   == 3     \* raw observation rows of the table given to add_cf
MaxMap   == 2     \* entries of the mapping configuration
MaxDates == 2     \* rows of the table given to set_season
MaxConv  == 2     \* rows of the table given to to_ppbv
MaxColl  == 2     \* collections of the configuration given to read_cf_data_2d
MaxStat  == 2     \* rows of the table given to compute_metrics_by_location
MaxSaves == 3     \* save calls in one session

(***************************************************************************)
(* Generic helpers.                                                        *)
(***************************************************************************)
Range(s) == {s[i] : i \in 1..Len(s)}

NaN == <<>>
Fin(v) == <<v>>
IsNaN(x) == x = <<>>

Abs(x) == IF x < 0 THEN -x ELSE x

RECURSIVE SelectSeqBy(_, _)
\* the subsequence of s whose indices are in the set keep, in order
SelectSeqBy(s, keep) ==
    IF s = <<>> THEN <<>>
    ELSE LET n == Len(s)
             front == SelectSeqBy(SubSeq(s, 1, n - 1), keep)
         IN  IF n \in keep THEN Append(front, s[n]) ELSE front

\* a slip: the last index of the minimum distance
ArgMinAbsLast(grid, x) ==
    CHOOSE i \in 1..Len(grid) :
        /\ \A j \in 1..Len(grid) : Abs(grid[i] - x) <= Abs(grid[j] - x)
        /\ \A j \in (i + 1)..Len(grid) : Abs(grid[j] - x) > Abs(grid[i] - x)

\* a slip: the index of the farthest grid point
ArgMaxAbs(grid, x) ==
    CHOOSE i \in 1..Len(grid) :
        \A j \in 1..Len(grid) : Abs(grid[i] - x) >= Abs(grid[j] - x)

\* numpy: np.abs(grid - x).argmin(), the first index of the minimum distance
ArgMinAbs(grid, x) ==
    CHOOSE i \in 1..Len(grid) :
        /\ \A j \in 1..Len(grid) : Abs(grid[i] - x) <= Abs(grid[j] - x)
        /\ \A j \in 1..(i - 1) : Abs(grid[j] - x) > Abs(grid[i] - x)

(***************************************************************************)
(* table_of_stations.py                                                    *)
(***************************************************************************)
\* numpy round(4) of a value given in 1e-5 units: nearest 1e-4, halves to even
Round4(x5) ==
    LET q == x5 \div 10
        r == x5 % 10
    IN  IF r < 5 THEN q
        ELSE IF r > 5 THEN q + 1
        ELSE IF q % 2 = 0 THEN q ELSE q + 1

\* a slip in the exponent: (i+90.0)*1.0e4+(j+180.0)
LatLonIdSmallFactor(lat4, lon4) ==
    <<(lat4 + 900000) + ((lon4 + 1800000) \div 10000),
      (lon4 + 1800000) % 10000>>

\* (i+90.0)*1.0e7+(j+180.0) for i, j in 1e-4 units: the integer part of the
\* scalar and its four decimals
LatLonId(lat4, lon4) ==
    <<(lat4 + 900000) * 1000 + ((lon4 + 1800000) \div 10000),
      (lon4 + 1800000) % 10000>>

\* the float order of two latlon_id scalars
IdLess(a, b) == a[1] < b[1] \/ (a[1] = b[1] /\ a[2] < b[2])

\* str(n).zfill(7): the decimal digits of n, left-padded with zeros to 7
RECURSIVE Digits(_)
Digits(n) == IF n < 10 THEN <<n>> ELSE Append(Digits(n \div 10), n % 10)

ZFill7(n) ==
    LET d == Digits(n)
    IN  IF Len(d) >= 7 THEN d ELSE [i \in 1..(7 - Len(d)) |-> 0] \o d

\* 'Station'+str(n).zfill(7)
StationName(n) == <<"Station", ZFill7(n)>>

\* the location 'unknown' of the dummy station
UnknownLocation == <<"unknown", <<>>>>

\* original station names are modelled by their rank in lexicographic order;
\* rank 1 is the string 'unknown', rank 0 a name sorting before it, rank 2 a
\* name sorting after it
UnknownName == 1
StationNames == {0, UnknownName, 2}

\* the regular grid the stations are mapped onto (1e-4 degrees); the caller
\* may also pass no grid (lats, lons = None)
GridLats == <<-5000, 5000, 15000>>
GridLons == <<-5000, 5000>>

\* the dummy station added to an empty stations table (-999.0 everywhere)
DummyStation ==
    [location |-> UnknownLocation, original_station_name |-> UnknownName,
     lat |-> -9990000, lon |-> -9990000, latlon_id |-> <<-999, 0>>,
     lat_gridded |-> Fin(-9990000), lon_gridded |-> Fin(-9990000),
     latlon_id_gridded |-> Fin(<<-999, 0>>), location_gridded |-> <<"unknown">>]

\* '{:.2f}' of a value in 1e-4 units: the value in 1e-2 units, halves to even
Round2(x4) ==
    LET q == x4 \div 100
        r == x4 % 100
    IN  IF r < 50 THEN q
        ELSE IF r > 50 THEN q + 1
        ELSE IF q % 2 = 0 THEN q ELSE q + 1

\* 'Station_{0:07.2f}E_{1:06.2f}N'.format(lon_gridded, lat_gridded)
GriddedName(lon4, lat4) == <<"Station_E_N", Round2(lon4), Round2(lat4)>>

MinOf(S) == CHOOSE x \in S : \A y \in S : x <= y

RECURSIVE SortedIds(_)
\* the ids of S in ascending order (the order of groupby(['latlon_id']))
SortedIds(S) ==
    IF S = {} THEN <<>>
    ELSE LET m == CHOOSE x \in S : \A y \in S : x = y \/ IdLess(x, y)
         IN  <<m>> \o SortedIds(S \ {m})

\* lines 58-60: round the coordinates and add column latlon_id
WithLatLonId(df) ==
    [i \in 1..Len(df) |->
        [ISO8601 |-> df[i].ISO8601,
         original_station_name |-> df[i].original_station_name,
         lat |-> Round4(df[i].lat), lon |-> Round4(df[i].lon),
         latlon_id |-> LatLonId(Round4(df[i].lat), Round4(df[i].lon))]]

\* a slip: every id of the batch counts as missing
MissingAll(df, stx) == {df[i].latlon_id : i \in 1..Len(df)}

\* line 64: df.index.difference(st.index)
Missing(df, stx) ==
    {df[i].latlon_id : i \in 1..Len(df)} \ {stx[i].latlon_id : i \in 1..Len(stx)}

\* a slip: the name of the first row seen for the id instead of the least
NewStationsFirstSeen(df, missing, nstat, grid) ==
    LET idl == SortedIds(missing)
        rowsOf(id) == {r \in Range(df) : r.latlon_id = id}
        first(id) == df[CHOOSE i \in 1..Len(df) :
                          /\ df[i].latlon_id = id
                          /\ \A j \in 1..(i - 1) : df[j].latlon_id # id]
        entry(i) ==
            LET rs == rowsOf(idl[i])
                la == MinOf({r.lat : r \in rs})
                lo == MinOf({r.lon : r \in rs})
                lag == GridLats[ArgMinAbs(GridLats, la)]
                log == GridLons[ArgMinAbs(GridLons, lo)]
            IN  [location |-> StationName((i - 1) + nstat),
                 original_station_name |-> first(idl[i]).original_station_name,
                 lat |-> la, lon |-> lo, latlon_id |-> idl[i],
                 lat_gridded |-> IF grid THEN Fin(lag) ELSE NaN,
                 lon_gridded |-> IF grid THEN Fin(log) ELSE NaN,
                 latlon_id_gridded |->
                     IF grid THEN Fin(LatLonId(lag, log)) ELSE NaN,
                 location_gridded |->
                     IF grid THEN GriddedName(log, lag) ELSE <<"unknown">>]
    IN  [i \in 1..Len(idl) |-> entry(i)]

\* lines 68-80: one new entry per missing id, in ascending id order, named
\* 'Station'+str(i+nstat).zfill(7); grid = TRUE when lats and lons are given
NewStations(df, missing, nstat, grid) ==
    LET idl == SortedIds(missing)
        rowsOf(id) == {r \in Range(df) : r.latlon_id = id}
        entry(i) ==
            LET rs == rowsOf(idl[i])
                la == MinOf({r.lat : r \in rs})
                lo == MinOf({r.lon : r \in rs})
                lag == GridLats[ArgMinAbs(GridLats, la)]
                log == GridLons[ArgMinAbs(GridLons, lo)]
            IN  [location |-> StationName((i - 1) + nstat),
                 original_station_name |->
                     MinOf({r.original_station_name : r \in rs}),
                 lat |-> la, lon |-> lo, latlon_id |-> idl[i],
                 lat_gridded |-> IF grid THEN Fin(lag) ELSE NaN,
                 lon_gridded |-> IF grid THEN Fin(log) ELSE NaN,
                 latlon_id_gridded |->
                     IF grid THEN Fin(LatLonId(lag, log)) ELSE NaN,
                 location_gridded |->
                     IF grid THEN GriddedName(log, lag) ELSE <<"unknown">>]
    IN  [i \in 1..Len(idl) |-> entry(i)]

\* a slip: drop the first row, where the dummy station was put
RemoveFirstRow(stx) == IF stx = <<>> THEN <<>> ELSE Tail(stx)

\* line 84: st.loc[st['original_station_name']!='unknown']
RemoveDummy(stx) ==
    SelectSeq(stx, LAMBDA e : e.original_station_name # UnknownName)

\* lines 43-56 and 61-84: the stations table after the call
UpdatedStations(df, st0, grid) ==
    LET stA     == IF Len(st0) = 0 THEN <<DummyStation>> ELSE st0
        nstat   == IF Len(st0) = 0 THEN 0 ELSE Len(st0)
        missing == Missing(df, stA)
    IN  IF missing # {}
        THEN RemoveDummy(stA \o NewStations(df, missing, nstat, grid))
        ELSE stA

RECURSIVE Merge(_, _)
\* line 86: df.merge(st[[...]], on='latlon_id'), an inner join that keeps the
\* order of the left rows
Merge(df, stx) ==
    IF df = <<>> THEN <<>>
    ELSE LET r == Head(df)
             m == SelectSeq(stx, LAMBDA e : e.latlon_id = r.latlon_id)
         IN  [j \in 1..Len(m) |->
                [ISO8601 |-> r.ISO8601,
                 original_station_name |-> r.original_station_name,
                 lat |-> r.lat, lon |-> r.lon, latlon_id |-> r.latlon_id,
                 location |-> m[j].location,
                 location_gridded |-> m[j].location_gridded,
                 lon_gridded |-> m[j].lon_gridded,
                 lat_gridded |-> m[j].lat_gridded,
                 latlon_id_gridded |-> m[j].latlon_id_gridded]]
             \o Merge(Tail(df), stx)

RECURSIVE SortByTime(_)
\* line 87: df.sort_values(by="ISO8601"); rows of equal time keep their order
\* (numpy sorts short arrays by insertion)
SortByTime(df) ==
    IF df = <<>> THEN <<>>
    ELSE LET t == MinOf({df[i].ISO8601 : i \in 1..Len(df)})
         IN  SelectSeq(df, LAMBDA r : r.ISO8601 = t)
             \o SortByTime(SelectSeq(df, LAMBDA r : r.ISO8601 # t))

\* update_stations_info(df, st, lats, lons) -> df, st
update_stations_info(df, st0, grid) ==
    LET dfi == WithLatLonId(df)
        stn == UpdatedStations(dfi, st0, grid)
    IN  [df |-> SortByTime(Merge(dfi, stn)), st |-> stn]

(***************************************************************************)
(* units.py                                                                *)
(*                                                                         *)
(* A gridded field is a sequence (latitude index) of sequences (longitude  *)
(* index).  The result of read_cf_data_2d, dat, is a function from keys to *)
(* fields, with the keys "lons" and "lats" holding the axes.  Pressures    *)
(* and temperatures of the model are chosen so that the divisions below    *)
(* are exact.                                                              *)
(***************************************************************************)
\* RCONST = 8.3145, in units of 1e-4
RCONST4 == 83145
PPM2PPB == 1000

\* the value None of a conversion factor
NoneConv == [is_none |-> TRUE, lon |-> <<>>, lat |-> <<>>, values |-> <<>>]

\* get_conv_ugm3_to_ppbv(dat, temperature_name, temperature_scal,
\*                       pressure_name, pressure_scal, mw):
\* T*tscal*RCONST*1.0e-6/(P*pscal*mw)*1.0e9 = T*tscal*RCONST4/(10*P*pscal*mw)
get_conv_ugm3_to_ppbv(dat, temperature_name, temperature_scal, pressure_name, pressure_scal, mw) ==
    IF temperature_name \notin DOMAIN dat \/ pressure_name \notin DOMAIN dat
    THEN NoneConv
    ELSE [is_none |-> FALSE, lon |-> dat["lons"], lat |-> dat["lats"],
          values |->
            [i \in 1..Len(dat["lats"]) |-> [j \in 1..Len(dat["lons"]) |->
                (dat[temperature_name][i][j] * temperature_scal * RCONST4)
                \div (10 * dat[pressure_name][i][j] * pressure_scal * mw)]]]

\* the exception record of a call: none, or the error that ended it
NoExc == [type |-> "none", msg |-> "", entry |-> 0]
Raise(type, msg, entry) == [type |-> type, msg |-> msg, entry |-> entry]

\* a slip: the rows of the whole table, whatever idx
RowsOfAnyIndex(df, idx, units) == {i \in 1..Len(df) : df[i].unit \in units}

\* the rows of idx whose unit column is one of units
RowsWithUnit(df, idx, units) == {i \in idx : df[i].unit \in units}

\* to_ppbv(df, idx=idx, conv_ugm3_to_ppbv=conv, convscal=1./mw) with the
\* defaults colname='conc_obs', unitcol='unit', temp=None, press=None.
\* convscal is the reciprocal of mw: the product is a division by mw.
to_ppbv(df, idx, conv, mw) ==
    LET ugm3 == RowsWithUnit(df, idx, {"ugm-3"})
        ppm  == RowsWithUnit(df, idx, {"ppmv", "ppm"})
        factor(r) == conv.values[ArgMinAbs(conv.lat, r.lat)]
                                [ArgMinAbs(conv.lon, r.lon)]
        step1 == [i \in 1..Len(df) |->
                    IF i \in ugm3 /\ ~IsNaN(df[i].conc_obs)
                    THEN [df[i] EXCEPT !.conc_obs =
                            Fin((df[i].conc_obs[1] * factor(df[i])) \div mw)]
                    ELSE df[i]]
        step2 == [i \in 1..Len(df) |->
                    IF i \in ppm /\ ~IsNaN(step1[i].conc_obs)
                    THEN [step1[i] EXCEPT !.conc_obs =
                            Fin(step1[i].conc_obs[1] * PPM2PPB)]
                    ELSE step1[i]]
    IN  IF ugm3 # {} /\ conv.is_none
        THEN [df |-> df, exc |-> Raise("AssertionError", "met", 0)]
        ELSE [df |-> step2, exc |-> NoExc]

(***************************************************************************)
(* add_cf_to_obs.py: _add_cf_data_to_df                                    *)
(*                                                                         *)
(* A mapping entry (var_config) is a record whose fields are the keys the  *)
(* configuration gives it.  The value of cfvars is <<"str", name>> for a   *)
(* string and <<"list", names>> for a list.  A model column is named by    *)
(* its suffix: "" is modcol itself.                                        *)
(***************************************************************************)
HasKey(d, k) == k \in DOMAIN d
GetOr(d, k, default) == IF k \in DOMAIN d THEN d[k] ELSE default

\* the float 1.0 used as a key of dat: it equals no variable name
FloatOneKey == "1.0"

\* line 130: conv = get_conv_ugm3_to_ppbv(dat,'t10m','ps',1.0), which binds
\* temperature_scal='ps' and pressure_name=1.0
ConvOfDat(dat) == get_conv_ugm3_to_ppbv(dat, "t10m", "ps", FloatOneKey, 1, 1)

\* a slip: reading the missing key raises
SkipEntryRaises(df) == [df |-> df, exc |-> [type |-> "KeyError", msg |-> "obstype", entry |-> 0]]

\* lines 135-137: an entry without obstype is skipped (continue)
SkipEntry(df) == [df |-> df, exc |-> NoExc]

\* line 138: the rows of this hour and of the entry's obstype
MatchIdx(df, idate, var_config) ==
    {i \in 1..Len(df) :
        df[i].ISO8601 = idate /\ df[i].obstype = var_config.obstype}

\* line 142: df.loc[idx,obscol] = df.loc[idx,'value']
CopyValue(df, idx) ==
    [i \in 1..Len(df) |->
        IF i \in idx THEN [df[i] EXCEPT !.conc_obs = Fin(df[i].value)]
        ELSE df[i]]

\* a slip: the model column is filled with NaN whether it is new or not
EnsureColumnReset(df, imodcol) ==
    [i \in 1..Len(df) |->
        [df[i] EXCEPT !.mod = (imodcol :> NaN) @@ df[i].mod]]

\* lines 150-151: add the model column, filled with NaN, if it is new
EnsureColumn(df, imodcol) ==
    [i \in 1..Len(df) |->
        IF imodcol \in DOMAIN df[i].mod THEN df[i]
        ELSE [df[i] EXCEPT !.mod = (imodcol :> NaN) @@ df[i].mod]]

\* float addition: NaN if either operand is NaN
AddFloat(a, b) == IF IsNaN(a) \/ IsNaN(b) THEN NaN ELSE Fin(a[1] + b[1])

\* a slip: the sum goes to the default model column whatever the suffix
AddCfVarDefaultColumn(df, idx, imodcol, dat, cfvar) ==
    [i \in 1..Len(df) |->
        IF i \in idx
        THEN LET acc  == IF IsNaN(df[i].mod[""]) THEN Fin(0)
                         ELSE df[i].mod[""]
                 cell == dat[cfvar][ArgMinAbs(dat["lats"], df[i].lat)]
                                   [ArgMinAbs(dat["lons"], df[i].lon)]
             IN  [df[i] EXCEPT !.mod[""] = AddFloat(acc, cell)]
        ELSE df[i]]

\* lines 161-166: set NaN's of the rows to zero, then add the variable's
\* value at each row's nearest cell
AddCfVar(df, idx, imodcol, dat, cfvar) ==
    [i \in 1..Len(df) |->
        IF i \in idx
        THEN LET acc  == IF IsNaN(df[i].mod[imodcol]) THEN Fin(0)
                         ELSE df[i].mod[imodcol]
                 cell == dat[cfvar][ArgMinAbs(dat["lats"], df[i].lat)]
                                   [ArgMinAbs(dat["lons"], df[i].lon)]
             IN  [df[i] EXCEPT !.mod[imodcol] = AddFloat(acc, cell)]
        ELSE df[i]]

RECURSIVE AddCfVars(_, _, _, _, _, _)
\* lines 160-166: the loop over cfvars; dat[cfvar] of an unknown variable
\* raises KeyError
AddCfVars(df, idx, imodcol, dat, names, entry) ==
    IF names = <<>> THEN [df |-> df, exc |-> NoExc]
    ELSE IF Head(names) \notin DOMAIN dat
         THEN [df |-> df, exc |-> Raise("KeyError", Head(names), entry)]
         ELSE AddCfVars(AddCfVar(df, idx, imodcol, dat, Head(names)),
                        idx, imodcol, dat, Tail(names), entry)

\* lines 157-159: a string is a list of one name
CfVarList(var_config) ==
    IF var_config.cfvars[1] = "str" THEN <<var_config.cfvars[2]>>
    ELSE var_config.cfvars[2]

\* a slip: the unit label is not written
SetUnitLabelNot(df, idx, unit) == df

\* line 169: df.loc[idx,unitcol] = unit
SetUnitLabel(df, idx, unit) ==
    [i \in 1..Len(df) |->
        IF i \in idx THEN [df[i] EXCEPT !.conc_unit = unit] ELSE df[i]]

\* lines 171-172: the two assertions before the conversion to ppbv; the
\* message of the one that fails, "" if both hold
PpbvAssert(var_config, conv) ==
    IF ~HasKey(var_config, "mw") THEN "mw"
    ELSE IF conv.is_none THEN "conv"
    ELSE ""

\* a slip: the unit is labelled without the assertions and the conversion
ApplyUnitUnchecked(df, idx, var_config, conv, entry) ==
    [df |-> SetUnitLabel(df, idx, GetOr(var_config, "unit", "unknown")),
     exc |-> NoExc]

\* lines 167-173: the unit label and, for ppbv, the conversion
ApplyUnit(df, idx, var_config, conv, entry) ==
    LET unit == GetOr(var_config, "unit", "unknown")
        lab  == SetUnitLabel(df, idx, unit)
    IN  IF unit # "ppbv" THEN [df |-> lab, exc |-> NoExc]
        ELSE IF PpbvAssert(var_config, conv) # ""
             THEN [df |-> lab, exc |->
                     Raise("AssertionError", PpbvAssert(var_config, conv), entry)]
             ELSE LET r == to_ppbv(lab, idx, conv, var_config.mw)
                  IN  [df |-> r.df,
                       exc |-> IF r.exc.type = "none" THEN NoExc
                               ELSE Raise(r.exc.type, r.exc.msg, entry)]

\* lines 134-173: the body of the loop for one mapping entry
MapEntry(df, idate, dat, conv, var_config, entry) ==
    IF ~HasKey(var_config, "obstype") THEN SkipEntry(df)
    ELSE LET idx == MatchIdx(df, idate, var_config)
         IN  IF idx = {} THEN [df |-> df, exc |-> NoExc]
             ELSE LET imodcol == GetOr(var_config, "modcol_suffix", "")
                      d1 == EnsureColumn(CopyValue(df, idx), imodcol)
                  IN  IF ~HasKey(var_config, "cfvars")
                      THEN [df |-> d1, exc |-> NoExc]
                      ELSE LET r == AddCfVars(d1, idx, imodcol, dat,
                                              CfVarList(var_config), entry)
                           IN  IF r.exc.type # "none" THEN r
                               ELSE ApplyUnit(r.df, idx, var_config, conv, entry)

RECURSIVE MapLoop(_, _, _, _, _, _)
\* line 133: for ivar in map_config, from entry number `entry` on; an
\* exception ends the loop
MapLoop(df, idate, dat, conv, mapping, entry) ==
    IF entry > Len(mapping) THEN [df |-> df, exc |-> NoExc]
    ELSE LET r == MapEntry(df, idate, dat, conv, mapping[entry], entry)
         IN  IF r.exc.type # "none" THEN r
             ELSE MapLoop(r.df, idate, dat, conv, mapping, entry + 1)

\* lines 123-125: the status of the read (rd is what read_cf_data_2d returned)
ReadStatus(rd) == rd.rc

\* a slip: a failed read skips its hour instead of returning the status
add_cf_data_to_df_skip_hour(df, idate, rd, mapping) ==
    IF ReadStatus(rd) # 0
    THEN [rc |-> 0, df |-> df, exc |-> NoExc]
    ELSE LET r == MapLoop(df, idate, rd.dat, ConvOfDat(rd.dat), mapping, 1)
         IN  [rc |-> 0, df |-> r.df, exc |-> r.exc]

\* _add_cf_data_to_df(df, idate, cf_config, map_config, ...) -> rc, df, given
\* the result rd of the read of line 123.  A failed read returns rc, None
\* (the empty table stands for None).
add_cf_data_to_df(df, idate, rd, mapping) ==
    IF ReadStatus(rd) # 0
    THEN [rc |-> ReadStatus(rd), df |-> <<>>, exc |-> NoExc]
    ELSE LET r == MapLoop(df, idate, rd.dat, ConvOfDat(rd.dat), mapping, 1)
         IN  [rc |-> 0, df |-> r.df, exc |-> r.exc]

(***************************************************************************)
(* Initial values of the variables a specification does not use.          *)
(***************************************************************************)
InitNoId ==
    /\ coords = <<>>
    /\ ids = <<>>

InitNoAddCf ==
    /\ df_in = <<>>
    /\ map_config = <<>>
    /\ cf_config = {}
    /\ df_cf = <<>>
    /\ hours = <<>>
    /\ reads = <<>>
    /\ result = <<>>
    /\ exc = <<>>

InitNoSeason ==
    /\ dates = <<>>
    /\ seasons = <<>>
    /\ season_names = <<>>

InitNoUnits ==
    /\ ppbv_df = <<>>
    /\ ppbv_idx = {}
    /\ ppbv_conv = <<>>
    /\ ppbv_ret = <<>>

InitNoRead ==
    /\ rd_config = <<>>
    /\ rd_idate = 0
    /\ rd_ret = <<>>

InitNoFile == st_file = <<>>

InitNoFun == InitNoSeason /\ InitNoUnits /\ InitNoRead /\ InitNoFile

InitNoStat ==
    /\ idat = <<>>
    /\ mt_args = <<>>
    /\ mt_ret = <<>>

InitNoSave ==
    /\ fs = <<>>
    /\ default_opened_files = <<>>
    /\ opened_files = <<>>
    /\ append_to_ofile = FALSE
    /\ sv_calls = 0
    /\ sv_last = <<>>

InitNoAgg == InitNoStat /\ InitNoSave

InitCommon ==
    /\ st = <<>>
    /\ st_arg = <<>>
    /\ df_arg = <<>>
    /\ df_ret = <<>>
    /\ ncalls = 0

(***************************************************************************)
(* add_cf_to_obs.py: add_cf                                                *)
(*                                                                         *)
(* A datetime is <<month, hour, minute>>.  Strings that pandas sorts are   *)
(* ranked by their place in StrOrder, which lists them alphabetically.     *)
(***************************************************************************)
StrOrder ==
    <<"Station0000000", "Station0000001", "count", "o3", "pm25", "ppbv", "ppmv",
      "ugm-3">>
Rank(str) == CHOOSE i \in 1..Len(StrOrder) : StrOrder[i] = str

\* line 72: dt.datetime(i.year,i.month,i.day,i.hour,0,0)
TruncToHour(t) == <<t[1], t[2], 0>>

TruncateTimes(df) ==
    [i \in 1..Len(df) |-> [df[i] EXCEPT !.ISO8601 = TruncToHour(df[i].ISO8601)]]

\* the group key of line 79
GroupKey(r) == <<r.ISO8601, r.location, r.obstype, r.unit>>

\* the sort order of the group keys
KeyLess(a, b) ==
    LET ka == <<a[1][1], a[1][2], a[1][3], Rank(a[2]), Rank(a[3]), Rank(a[4])>>
        kb == <<b[1][1], b[1][2], b[1][3], Rank(b[2]), Rank(b[3]), Rank(b[4])>>
    IN  \E n \in 1..6 : ka[n] < kb[n] /\ \A m \in 1..(n - 1) : ka[m] = kb[m]

RECURSIVE SortedKeys(_)
SortedKeys(S) ==
    IF S = {} THEN <<>>
    ELSE LET m == CHOOSE x \in S : \A y \in S : x = y \/ KeyLess(x, y)
         IN  <<m>> \o SortedKeys(S \ {m})

RECURSIVE SumSeq(_)
SumSeq(q) == IF q = <<>> THEN 0 ELSE Head(q) + SumSeq(Tail(q))

\* a slip: the sum instead of the mean
SumNotMean(q) == SumSeq(q)

\* the arithmetic mean of a column over a group (exact for the values of
\* this model)
Mean(q) == SumSeq(q) \div Len(q)

\* line 79: df_in.groupby(['ISO8601','location','obstype','unit']).mean()
\* .reset_index(): one row per key, in key order, holding the mean of every
\* numeric column; the other columns are dropped
Aggregate(df) ==
    LET keys == SortedKeys({GroupKey(df[i]) : i \in 1..Len(df)})
        grp(k) == SelectSeq(df, LAMBDA r : GroupKey(r) = k)
        col(g, c) == [i \in 1..Len(g) |-> g[i][c]]
    IN  [n \in 1..Len(keys) |->
            LET g == grp(keys[n])
            IN  [ISO8601 |-> keys[n][1], location |-> keys[n][2],
                 obstype |-> keys[n][3], unit |-> keys[n][4],
                 value |-> Mean(col(g, "value")),
                 lat |-> Mean(col(g, "lat")),
                 lon |-> Mean(col(g, "lon"))]]

\* lines 82-84: the columns modcol and obscol (NaN) and unitcol ('unknown')
WithNewColumns(df) ==
    [i \in 1..Len(df) |->
        [ISO8601 |-> df[i].ISO8601, location |-> df[i].location,
         obstype |-> df[i].obstype, unit |-> df[i].unit,
         value |-> df[i].value, lat |-> df[i].lat, lon |-> df[i].lon,
         mod |-> ("" :> NaN), conc_obs |-> NaN, conc_unit |-> "unknown"]]

RECURSIVE Unique(_)
\* line 86: list(df['ISO8601'].unique()), in order of first appearance
Unique(q) ==
    IF q = <<>> THEN <<>>
    ELSE <<Head(q)>> \o Unique(SelectSeq(Tail(q), LAMBDA x : x # Head(q)))

HoursOf(df) == Unique([i \in 1..Len(df) |-> df[i].ISO8601])

\* lines 104-105: groupby(['location']+c2fill).count() and then
\* groupby(['location']).max(): for each location the maximum of the dropped
\* column original_station_name
StationMeta(df, location) ==
    LET names == {df[i].original_station_name :
                    i \in {j \in 1..Len(df) : df[j].location = location}}
    IN  CHOOSE x \in names : \A y \in names : y <= x

\* line 31 of seasons.py: (i.month%12+3)//3
SeasonOf(t) == ((t[1] % 12) + 3) \div 3

\* lines 93-112: re-add the dropped column (merge on location) and write out
\* the season; the table add_cf returns
Finish(df, dfin) ==
    [i \in 1..Len(df) |->
        [ISO8601 |-> df[i].ISO8601, location |-> df[i].location,
         obstype |-> df[i].obstype, unit |-> df[i].unit,
         value |-> df[i].value, lat |-> df[i].lat, lon |-> df[i].lon,
         mod |-> df[i].mod, conc_obs |-> df[i].conc_obs,
         conc_unit |-> df[i].conc_unit,
         original_station_name |-> StationMeta(dfin, df[i].location),
         season |-> SeasonOf(df[i].ISO8601)]]

\* what add_cf has returned: nothing yet, None, or a table
NoResult == [kind |-> "pending", df |-> <<>>]
NoneResult == [kind |-> "None", df |-> <<>>]
TableResult(df) == [kind |-> "table", df |-> df]

(***************************************************************************)
(* Inputs of the matcher specification.                                    *)
(***************************************************************************)
Obs(t, loc, name, la, lo, ot, u, v) ==
    [ISO8601 |-> t, location |-> loc, original_station_name |-> name,
     lat |-> la, lon |-> lo, obstype |-> ot, unit |-> u, value |-> v]

\* the observations a table is drawn from: two stations, three hours; the
\* first two rows fall into one group, the fourth row has a unit to_ppbv
\* does not handle
ObsMaster ==
    <<Obs(<<1, 0, 10>>, "Station0000000", 0, 2, 5, "o3", "ppbv", 10),
      Obs(<<1, 0, 40>>, "Station0000000", 2, 2, 5, "o3", "ppbv", 20),
      Obs(<<1, 1, 10>>, "Station0000000", 0, 2, 5, "pm25", "ugm-3", 12),
      Obs(<<1, 0, 10>>, "Station0000001", 0, 9, 18, "pm25", "count", 24),
      Obs(<<12, 2, 5>>, "Station0000001", 0, 9, 18, "o3", "ppmv", 12)>>

\* the tables given to add_cf: up to MaxObs rows of ObsMaster, in its order
ObsTables ==
    {SelectSeqBy(ObsMaster, keep) :
        keep \in {k \in SUBSET (1..Len(ObsMaster)) :
                    Cardinality(k) >= 1 /\ Cardinality(k) <= MaxObs}}

\* the mapping entries a configuration is drawn from
MapEntries ==
    {[obstype |-> "o3", cfvars |-> <<"str", "o3">>, unit |-> "ppbv", mw |-> 12],
     [obstype |-> "o3", cfvars |-> <<"str", "o3">>, unit |-> "ppbv"],
     [obstype |-> "o3", unit |-> "ppbv"],
     [obstype |-> "o3", cfvars |-> <<"str", "o3">>],
     [cfvars |-> <<"str", "o3">>, unit |-> "ppbv", mw |-> 12],
     [obstype |-> "pm25", cfvars |-> <<"list", <<"pm25_a", "pm25_b">>>>,
      unit |-> "ugm-3"],
     [obstype |-> "pm25", cfvars |-> <<"list", <<"pm25_b", "pm25_a">>>>,
      unit |-> "ugm-3", modcol_suffix |-> "_test"],
     [obstype |-> "pm25", cfvars |-> <<"str", "pm25_b">>, unit |-> "ppbv",
      mw |-> 12]}

MapConfigs == UNION {[1..n -> MapEntries] : n \in 1..MaxMap}

\* the variables of the chemistry collection and of the met collection
ChemVars == {"o3", "pm25_a", "pm25_b"}
MetVars == {"t10m", "ps"}
CfConfigs == {ChemVars, ChemVars \cup MetVars}

\* the axes and the fields of the files
DatLats == <<0, 10>>
DatLons == <<0, 10, 20>>
ChemBase(k) ==
    IF k = "o3" THEN 24
    ELSE IF k = "pm25" THEN 9
    ELSE IF k = "pm25_a" THEN 100 ELSE 200

\* the value of the variable k at cell (i, j): 300 K, a pressure that makes
\* the conversion factor 300/(10*i), a concentration that differs from cell
\* to cell and from variable to variable, or NaN
CellOf(k, nanvars, i, j) ==
    IF k = "t10m" THEN 300
    ELSE IF k = "ps" THEN RCONST4 * i
    ELSE IF k \in nanvars THEN NaN
    ELSE Fin(ChemBase(k) + 10 * i + j)

\* dat as read for the collections cfg, the variables nanvars being NaN
\* everywhere in this hour's file
Dat(cfg, nanvars) ==
    [k \in {"lons", "lats"} \cup cfg |->
        IF k = "lons" THEN DatLons
        ELSE IF k = "lats" THEN DatLats
        ELSE [i \in 1..Len(DatLats) |->
                [j \in 1..Len(DatLons) |-> CellOf(k, nanvars, i, j)]]]

\* what read_cf_data_2d may return for one hour: a read failure (rc = -1),
\* or rc = 0 and the fields
ReadResults(cfg) ==
    {[rc |-> -1, dat |-> <<>>]}
    \cup {[rc |-> 0, dat |-> Dat(cfg, nv)] : nv \in {{}, {"pm25_a"}}}

(***************************************************************************)
(* The matcher specification: one call of add_cf.                          *)
(***************************************************************************)
InitAddCf ==
    /\ InitNoAgg
    /\ InitCommon
    /\ InitNoFun
    /\ InitNoId
    /\ has_grid = FALSE
    /\ pc = "add_cf"
    /\ df_in \in ObsTables
    /\ map_config \in MapConfigs
    /\ cf_config \in CfConfigs
    /\ df_cf = <<>>
    /\ hours = <<>>
    /\ reads = <<>>
    /\ result = NoResult
    /\ exc = NoExc

\* lines 67-84: truncate the time stamps (in the caller's table), aggregate,
\* add the new columns
AddCfBegin ==
    /\ pc = "add_cf"
    /\ df_in' = TruncateTimes(df_in)
    /\ df_cf' = WithNewColumns(Aggregate(TruncateTimes(df_in)))
    /\ hours' = HoursOf(Aggregate(TruncateTimes(df_in)))
    /\ pc' = "loop"
    /\ UNCHANGED <<aggvars, stvars, idvars, funvars, map_config, cf_config, reads, result, exc>>

\* lines 86-92: one pass of the loop over the hours, with the result rd of
\* its read; an exception ends the call, a failed read makes it return None
AddCfHour ==
    /\ pc = "loop"
    /\ hours # <<>>
    /\ \E rd \in ReadResults(cf_config) :
         LET r == add_cf_data_to_df(df_cf, Head(hours), rd, map_config)
         IN  /\ reads' = Append(reads, [idate |-> Head(hours), rc |-> rd.rc,
                                        dat |-> rd.dat])
             /\ df_cf' = r.df
             /\ exc' = r.exc
             /\ hours' = Tail(hours)
             /\ pc' = IF r.exc.type # "none" THEN "raised"
                      ELSE IF r.rc # 0 THEN "done" ELSE "loop"
             /\ result' = IF r.exc.type = "none" /\ r.rc # 0 THEN NoneResult
                          ELSE result
    /\ UNCHANGED <<aggvars, stvars, idvars, funvars, df_in, map_config, cf_config>>

\* lines 93-112: after the last hour, complete the table and return it
AddCfReturn ==
    /\ pc = "loop"
    /\ hours = <<>>
    /\ result' = TableResult(Finish(df_cf, df_in))
    /\ pc' = "done"
    /\ UNCHANGED <<aggvars, stvars, idvars, funvars, df_in, map_config, cf_config, df_cf, hours,
                   reads, exc>>

NextAddCf == AddCfBegin \/ AddCfHour \/ AddCfReturn

SpecAddCf == InitAddCf /\ [][NextAddCf]_vars

(***************************************************************************)
(* seasons.py                                                              *)
(***************************************************************************)
\* lines 15-20
season_lookup_table ==
    (1 :> "DJF") @@ (2 :> "MAM") @@ (3 :> "JJA") @@ (4 :> "SON")

\* lines 22-32: df['season'] = [(i.month%12+3)//3 for i in df['ISO8601']]
set_season(iso) == [i \in 1..Len(iso) |-> SeasonOf(iso[i])]

\* lines 35-37: season_lookup_table.get(i%4); dict.get gives None for a
\* key that is not in the table
get_season_name(i) ==
    IF (i % 4) \in DOMAIN season_lookup_table
    THEN season_lookup_table[i % 4]
    ELSE "None"

\* the time stamps of the table: any month, at hour 0
DateColumns ==
    UNION {[1..n -> {<<m, 0, 0>> : m \in 1..12}] : n \in 1..MaxDates}

InitSeasons ==
    /\ InitNoAgg
    /\ InitCommon
    /\ InitNoId
    /\ InitNoAddCf
    /\ has_grid = FALSE
    /\ InitNoUnits
    /\ InitNoRead
    /\ InitNoFile
    /\ pc = "season"
    /\ dates \in DateColumns
    /\ seasons = <<>>
    /\ season_names = <<>>

SetSeason ==
    /\ pc = "season"
    /\ seasons' = set_season(dates)
    /\ pc' = "season_set"
    /\ UNCHANGED <<aggvars, stvars, idvars, matchvars, unitvars, readvars, filevars, dates,
                   season_names>>

GetSeasonName ==
    /\ pc = "season_set"
    /\ season_names' = [i \in 1..Len(seasons) |-> get_season_name(seasons[i])]
    /\ pc' = "season_named"
    /\ UNCHANGED <<aggvars, stvars, idvars, matchvars, unitvars, readvars, filevars, dates,
                   seasons>>

NextSeasons == SetSeason \/ GetSeasonName

SpecSeasons == InitSeasons /\ [][NextSeasons]_vars

(***************************************************************************)
(* to_ppbv called on its own table.                                        *)
(***************************************************************************)
ConvUnits == {"ugm-3", "ppmv", "ppm", "ppbv", "unitless"}

\* the rows of the table: a unit and a value to convert (1, 3 or NaN)
ConvRows ==
    {[unit |-> u, conc_obs |-> v, lat |-> 2, lon |-> 5] :
        u \in ConvUnits, v \in {Fin(1), Fin(3), NaN}}

ConvTables == UNION {[1..n -> ConvRows] : n \in 1..MaxConv}

\* the conversion factor of an hour with t10m and ps, or None
ConvFactors ==
    {NoneConv,
     get_conv_ugm3_to_ppbv(Dat(MetVars, {}), "t10m", 1, "ps", 1, 1)}

InitToPpbv ==
    /\ InitNoAgg
    /\ InitCommon
    /\ InitNoId
    /\ InitNoAddCf
    /\ InitNoSeason
    /\ InitNoRead
    /\ InitNoFile
    /\ has_grid = FALSE
    /\ pc = "to_ppbv"
    /\ ppbv_df \in ConvTables
    /\ ppbv_idx \in SUBSET (1..Len(ppbv_df))
    /\ ppbv_conv \in ConvFactors
    /\ ppbv_ret = <<>>

\* to_ppbv(df, conv_ugm3_to_ppbv=conv, idx=idx), convscal left at 1.0
ToPpbv ==
    /\ pc = "to_ppbv"
    /\ ppbv_ret' = to_ppbv(ppbv_df, ppbv_idx, ppbv_conv, 1)
    /\ pc' = "to_ppbv_done"
    /\ UNCHANGED <<aggvars, stvars, idvars, matchvars, seasonvars, readvars, filevars,
                   ppbv_df, ppbv_idx, ppbv_conv>>

NextToPpbv == ToPpbv

SpecToPpbv == InitToPpbv /\ [][NextToPpbv]_vars

(***************************************************************************)
(* read_cf.py: read_cf_data_2d                                             *)
(*                                                                         *)
(* Time is counted in hours.  A file is unreadable or holds a dataset: the *)
(* sequence of its time steps [time, val], in time order.  A value read    *)
(* from a dataset is kept as the pair <<sum, count>> of the steps it       *)
(* averages, so that the mean is exact; <<v, 1>> is the value v and        *)
(* <<0, 0>> the mean of no step (NaN).                                      *)
(***************************************************************************)
AVG_LABEL_BEFORE == "average_offset_before"
AVG_LABEL_AFTER == "average_offset_after"

RECURSIVE SumVals(_)
SumVals(steps) ==
    IF steps = <<>> THEN 0 ELSE Head(steps).val + SumVals(Tail(steps))

\* a slip: the end of the window is left out
InWindowOpen(t, startdate, enddate) == startdate <= t /\ t < enddate

\* line 129: slice(startdate,enddate) selects by label, both ends included
InWindow(t, startdate, enddate) == startdate <= t /\ t <= enddate

\* line 129: ds.sel(time=slice(startdate,enddate)).mean(dim='time')
WindowMean(ds, startdate, enddate) ==
    LET sel == SelectSeq(ds, LAMBDA x : InWindow(x.time, startdate, enddate))
    IN  <<SumVals(sel), Len(sel)>>

\* line 131: ds.sel(time=tmpdate,method='nearest')
NearestStep(ds, t) ==
    LET n == CHOOSE i \in 1..Len(ds) :
                \A j \in 1..Len(ds) : Abs(ds[i].time - t) <= Abs(ds[j].time - t)
    IN  <<ds[n].val, 1>>

\* lines 120-133: reduce the dataset to one time
ReduceTo2D(ds, icol, idate) ==
    IF Len(ds) > 1
    THEN IF HasKey(icol, AVG_LABEL_BEFORE) /\ HasKey(icol, AVG_LABEL_AFTER)
         THEN WindowMean(ds, idate - icol[AVG_LABEL_BEFORE],
                         idate + icol[AVG_LABEL_AFTER])
         ELSE NearestStep(ds, idate)
    ELSE <<ds[1].val, 1>>

\* lines 150-158: _get_2d_array, ds[var]*scal
get_2d_array(val, scal) == <<val[1] * scal, val[2]>>

\* lines 136-144: the coordinates, if dat has none yet, and the variables
WithCollection(dat, icol, val) ==
    [k \in DOMAIN dat \cup {"lons", "lats"} \cup DOMAIN icol["vars"] |->
        IF k \in DOMAIN icol["vars"] THEN get_2d_array(val, icol["vars"][k])
        ELSE IF k \in DOMAIN dat THEN dat[k]
        ELSE IF k = "lons" THEN DatLons ELSE DatLats]

\* a slip: a collection without template or vars ends the read with -1
read_collection_strict(dat, c, idate) ==
    IF ~HasKey(c.icol, "template") \/ ~HasKey(c.icol, "vars")
       \/ ~c.file.readable
    THEN [rc |-> -1, dat |-> dat, stop |-> TRUE]
    ELSE [rc |-> 0, stop |-> FALSE,
          dat |-> WithCollection(dat, c.icol,
                                 ReduceTo2D(c.file.ds, c.icol, idate))]

\* lines 97-146: one pass of the loop over the collections
read_collection(dat, c, idate) ==
    IF ~HasKey(c.icol, "template") \/ ~HasKey(c.icol, "vars")
    THEN [rc |-> 0, dat |-> dat, stop |-> FALSE]
    ELSE IF ~c.file.readable
    THEN [rc |-> -1, dat |-> dat, stop |-> TRUE]
    ELSE [rc |-> 0, stop |-> FALSE,
          dat |-> WithCollection(dat, c.icol,
                                 ReduceTo2D(c.file.ds, c.icol, idate))]

RECURSIVE ReadLoop(_, _, _)
\* lines 96-147: the loop, left at the first file that cannot be opened
ReadLoop(dat, config, idate) ==
    IF config = <<>> THEN [rc |-> 0, dat |-> dat]
    ELSE LET r == read_collection(dat, Head(config), idate)
         IN  IF r.stop THEN [rc |-> r.rc, dat |-> r.dat]
             ELSE ReadLoop(r.dat, Tail(config), idate)

\* lines 90-147, with dat = {} at the start
read_cf_data_2d(idate, config) == ReadLoop(<<>>, config, idate)

(***************************************************************************)
(* Inputs of the reader specification.                                     *)
(***************************************************************************)
\* the 24 hourly steps of one day, all of value 5
DaySeries == [h \in 1..24 |-> [time |-> h - 1, val |-> 5]]

Datasets ==
    {<<[time |-> 5, val |-> 7]>>,
     <<[time |-> 5, val |-> 4], [time |-> 8, val |-> 8]>>,
     <<[time |-> 4, val |-> 3], [time |-> 5, val |-> 6], [time |-> 6, val |-> 12]>>,
     DaySeries}

\* what opening the file gives: an error, or a dataset
Files ==
    {[readable |-> FALSE, ds |-> <<>>]}
    \cup {[readable |-> TRUE, ds |-> d] : d \in Datasets}

\* the keys a collection may have besides its averaging window
CollectionKeys(vs) ==
    {[template |-> "f", vars |-> vs], [vars |-> vs], [template |-> "f"]}

\* the averaging windows: none, one offset only, one hour or twelve hours
\* on both sides
Windows ==
    {<<>>, (AVG_LABEL_BEFORE :> 1),
     (AVG_LABEL_BEFORE :> 1) @@ (AVG_LABEL_AFTER :> 1),
     (AVG_LABEL_BEFORE :> 12) @@ (AVG_LABEL_AFTER :> 12)}

CollectionsOf(name, vs) ==
    {[name |-> name, icol |-> k @@ w, file |-> f] :
        k \in CollectionKeys(vs), w \in Windows, f \in Files}

\* the variables of the two collections, each with its scal
MetCollections == CollectionsOf("met", ("t10m" :> 1) @@ ("ps" :> 100))
ChemCollections == CollectionsOf("chem", ("o3" :> 2))

RECURSIVE ConfigsOf(_, _)
\* the configurations of at most n collections with names from names, no
\* name twice (config is a dict)
ConfigsOf(names, n) ==
    IF n = 0 THEN {<<>>}
    ELSE {<<>>} \cup
         UNION {{<<c>> \o q : q \in ConfigsOf(names \ {c.name}, n - 1)} :
                  c \in {x \in MetCollections \cup ChemCollections :
                           x.name \in names}}

Configs ==
    ConfigsOf({"met", "chem"}, MaxColl) \ {<<>>}

InitReadCf ==
    /\ InitNoAgg
    /\ InitCommon
    /\ InitNoId
    /\ InitNoAddCf
    /\ InitNoSeason
    /\ InitNoUnits
    /\ InitNoFile
    /\ has_grid = FALSE
    /\ pc = "read_cf"
    /\ rd_config \in Configs
    /\ rd_idate \in {5, 12}
    /\ rd_ret = <<>>

ReadCf ==
    /\ pc = "read_cf"
    /\ rd_ret' = read_cf_data_2d(rd_idate, rd_config)
    /\ pc' = "read_cf_done"
    /\ UNCHANGED <<aggvars, stvars, idvars, matchvars, seasonvars, unitvars, filevars,
                   rd_config, rd_idate>>

NextReadCf == ReadCf

SpecReadCf == InitReadCf /\ [][NextReadCf]_vars

(***************************************************************************)
(* The end-to-end scenario: two observations of one hour and location, o3   *)
(* (40 ppbv) and pm25 (15 ugm-3); the fields hold o3 = 35 and pm25 = 20 at  *)
(* the nearest cell (1, 1).                                                *)
(***************************************************************************)
ScenarioMinutes == {0, 30}

ScenarioObs(m1, m2) ==
    <<Obs(<<6, 12, m1>>, "Station0000000", 0, 2, 3, "o3", "ppbv", 40),
      Obs(<<6, 12, m2>>, "Station0000000", 0, 2, 3, "pm25", "ugm-3", 15)>>

\* the o3 entry: declared as ppbv (with or without mw) or without a unit,
\* writing to conc_mod or to conc_mod_o3
ScenarioO3Entries ==
    {[obstype |-> "o3", cfvars |-> <<"str", "o3">>, unit |-> "ppbv"],
     [obstype |-> "o3", cfvars |-> <<"str", "o3">>, unit |-> "ppbv",
      modcol_suffix |-> "_o3"],
     [obstype |-> "o3", cfvars |-> <<"str", "o3">>, unit |-> "ppbv", mw |-> 48],
     [obstype |-> "o3", cfvars |-> <<"str", "o3">>],
     [obstype |-> "o3", cfvars |-> <<"str", "o3">>, modcol_suffix |-> "_o3"]}

\* the pm25 entry: declared as ugm-3
ScenarioPm25Entries ==
    {[obstype |-> "pm25", cfvars |-> <<"str", "pm25">>, unit |-> "ugm-3"],
     [obstype |-> "pm25", cfvars |-> <<"str", "pm25">>, unit |-> "ugm-3",
      modcol_suffix |-> "_pm25"]}

ScenarioMappings ==
    {<<a, b>> : a \in ScenarioO3Entries, b \in ScenarioPm25Entries}
    \cup {<<b, a>> : a \in ScenarioO3Entries, b \in ScenarioPm25Entries}

ScenarioVars == {"o3", "pm25"}

InitScenario ==
    /\ InitNoAgg
    /\ InitCommon
    /\ InitNoFun
    /\ InitNoId
    /\ has_grid = FALSE
    /\ pc = "add_cf"
    /\ \E m1 \in ScenarioMinutes, m2 \in ScenarioMinutes :
         df_in = ScenarioObs(m1, m2)
    /\ map_config \in ScenarioMappings
    /\ cf_config \in {ScenarioVars, ScenarioVars \cup MetVars}
    /\ df_cf = <<>>
    /\ hours = <<>>
    /\ reads = <<>>
    /\ result = NoResult
    /\ exc = NoExc

SpecScenario == InitScenario /\ [][NextAddCf]_vars

(***************************************************************************)
(* Inputs of the stations specification.                                   *)
(***************************************************************************)
\* the observation rows a batch is drawn from.  Raw coordinates are in 1e-5
\* degrees: (12, 3) and (14, 3) round to the same 4-decimal pair (station A),
\* (100026, -17) is station B and (100026, 3) station C, with A < B < C in
\* latlon_id.  Station A is reported under three names, one of them 'unknown'.
ObsRow(t, n, la, lo) ==
    [ISO8601 |-> t, original_station_name |-> n, lat |-> la, lon |-> lo]

ObsRows ==
    {ObsRow(1, UnknownName, 12, 3), ObsRow(0, 2, 14, 3), ObsRow(0, 0, 12, 3),
     ObsRow(1, 2, 100026, -17), ObsRow(0, 2, 100026, 3)}

Batches == UNION {[1..n -> ObsRows] : n \in 1..MaxRows}

\* the two extreme and a few interior rounded coordinates (1e-4 degrees)
IdLats == {-900000, -899999, -1, 0, 1, 899999, 900000}
IdLons == {-1800000, -1799999, -1790000, -1, 0, 1, 1799999, 1800000}

(***************************************************************************)
(* The stations specification: a run of update_stations_info calls, each   *)
(* given the stations table returned by the one before.                    *)
(***************************************************************************)
InitStations ==
    /\ InitNoAgg
    /\ InitCommon
    /\ InitNoFun
    /\ InitNoId
    /\ InitNoAddCf
    /\ pc = "stations"
    /\ has_grid \in BOOLEAN

UpdateStationsInfo ==
    /\ pc = "stations"
    /\ ncalls < MaxCalls
    /\ \E df \in Batches :
         LET r == update_stations_info(df, st, has_grid)
         IN  /\ st' = r.st
             /\ df_ret' = r.df
             /\ df_arg' = df
    /\ st_arg' = st
    /\ ncalls' = ncalls + 1
    /\ UNCHANGED <<aggvars, pc, has_grid, idvars, matchvars, funvars>>

NextStations == UpdateStationsInfo

SpecStations == InitStations /\ [][NextStations]_vars

(***************************************************************************)
(* The identity specification: latlon_id of two rounded coordinate pairs.  *)
(***************************************************************************)
InitId ==
    /\ InitNoAgg
    /\ InitCommon
    /\ InitNoFun
    /\ InitNoAddCf
    /\ pc = "id"
    /\ has_grid = FALSE
    /\ coords \in [1..2 -> IdLats \X IdLons]
    /\ ids = <<>>

ComputeIds ==
    /\ pc = "id"
    /\ ids = <<>>
    /\ ids' = [i \in 1..2 |-> LatLonId(coords[i][1], coords[i][2])]
    /\ UNCHANGED <<aggvars, pc, stvars, coords, matchvars, funvars>>

NextId == ComputeIds

SpecId == InitId /\ [][NextId]_vars

(***************************************************************************)
(* The stations file: read_obs starts from an empty table, calls           *)
(* update_stations_info for each day with the rows its filter left, and    *)
(* writes the table at the end.                                            *)
(***************************************************************************)
NoFile == [written |-> FALSE, rows |-> <<>>]

\* lines 91-100 of table_of_stations.py: nothing is written for an empty
\* table; else all rows, with the columns of line 98
write_table_of_stations(stationstable) ==
    IF Len(stationstable) = 0 THEN NoFile
    ELSE [written |-> TRUE,
          rows |-> [i \in 1..Len(stationstable) |->
                      [c \in {"location", "lat", "lon", "latlon_id",
                               "original_station_name", "location_gridded",
                               "lat_gridded", "lon_gridded",
                               "latlon_id_gridded"} |-> stationstable[i][c]]]]

\* read_obs.py lines 135-140: the day's table has rows, and the rows whose
\* lat, lon or value is NaN are removed before update_stations_info is
\* called: the batch may be empty
FilteredBatches == {<<>>} \cup Batches

InitRegistry ==
    /\ InitNoAgg
    /\ InitCommon
    /\ InitNoSeason
    /\ InitNoUnits
    /\ InitNoRead
    /\ InitNoId
    /\ InitNoAddCf
    /\ pc = "registry"
    /\ has_grid = TRUE
    /\ st_file = NoFile

UpdateStationsInfoOfDay ==
    /\ pc = "registry"
    /\ ncalls < MaxCalls
    /\ \E df \in FilteredBatches :
         LET r == update_stations_info(df, st, has_grid)
         IN  /\ st' = r.st
             /\ df_ret' = r.df
             /\ df_arg' = df
    /\ st_arg' = st
    /\ ncalls' = ncalls + 1
    /\ UNCHANGED <<aggvars, pc, has_grid, idvars, matchvars, seasonvars, unitvars,
                   readvars, st_file>>

WriteTableOfStations ==
    /\ pc = "registry"
    /\ st_file' = write_table_of_stations(st)
    /\ pc' = "written"
    /\ UNCHANGED <<aggvars, stvars, idvars, matchvars, seasonvars, unitvars, readvars>>

NextRegistry == UpdateStationsInfoOfDay \/ WriteTableOfStations

SpecRegistry == InitRegistry /\ [][NextRegistry]_vars

(***************************************************************************)
(* statistics.py: compute_metrics_by_location                              *)
(*                                                                         *)
(* A row of the table is a record with the columns location, conc_mod and  *)
(* conc_obs, and season when the table has that column.  Location names    *)
(* are strings, modelled by numbers in their string order.  An index label *)
(* is <<"str", n>> for the location name n and <<"int", k>> for position k *)
(* of a RangeIndex.  A quotient is kept exact as <<numerator,              *)
(* denominator>>; <<>> is NaN and a zero denominator is an infinity.       *)
(***************************************************************************)
Quot(n, d) == IF n = 0 /\ d = 0 THEN NaN ELSE <<n, d>>

SubFloat(a, b) == IF IsNaN(a) \/ IsNaN(b) THEN NaN ELSE Fin(a[1] - b[1])

\* lines 18-24 without the np.abs of line 23
compute_unaggregated_metrics_signed(dat) ==
    [i \in 1..Len(dat) |->
        LET bias == SubFloat(dat[i].conc_mod, dat[i].conc_obs)
        IN  dat[i] @@ [bias |-> bias,
                       AbsErr |-> bias,
                       bias2 |-> IF IsNaN(bias) THEN NaN
                                 ELSE Fin(bias[1] * bias[1])]]

\* lines 18-24, and bias2 of line 43
compute_unaggregated_metrics(dat) ==
    [i \in 1..Len(dat) |->
        LET bias == SubFloat(dat[i].conc_mod, dat[i].conc_obs)
        IN  dat[i] @@ [bias |-> bias,
                       AbsErr |-> IF IsNaN(bias) THEN NaN ELSE Fin(Abs(bias[1])),
                       bias2 |-> IF IsNaN(bias) THEN NaN
                                 ELSE Fin(bias[1] * bias[1])]]

\* lines 39-43 of seasons.py
reduce_data_to_season(df, season_number) ==
    IF \E i \in 1..Len(df) : "season" \in DOMAIN df[i]
    THEN [exc |-> NoExc,
          df |-> SelectSeq(df, LAMBDA r : r.season = season_number)]
    ELSE [exc |-> Raise("AttributeError", "set_season", 0), df |-> <<>>]

\* the group of one location, and pandas' sum, count and mean of a column of
\* it: NaN is skipped, the sum of no value is 0 and the mean of no value NaN
Group(dat, loc) == SelectSeq(dat, LAMBDA r : r.location = loc)

RECURSIVE SumSkipNa(_)
SumSkipNa(q) ==
    IF q = <<>> THEN 0
    ELSE (IF IsNaN(Head(q)) THEN 0 ELSE Head(q)[1]) + SumSkipNa(Tail(q))

GroupSum(g, col) == SumSkipNa([i \in 1..Len(g) |-> g[i][col]])

GroupCount(g, col) == Cardinality({i \in 1..Len(g) : ~IsNaN(g[i][col])})

GroupMean(g, col) ==
    IF GroupCount(g, col) = 0 THEN NaN
    ELSE <<GroupSum(g, col), GroupCount(g, col)>>

\* the sorted group keys of a groupby: position k (from 0) holds GroupKeys[k+1]
GroupKeys(dat) ==
    LET S == {dat[i].location : i \in 1..Len(dat)}
        f[T \in SUBSET S] ==
            IF T = {} THEN <<>>
            ELSE LET m == CHOOSE x \in T : \A y \in T : x <= y
                 IN  <<m>> \o f[T \ {m}]
    IN  f[S]

\* line 51-54: the locations kept in df, the output frame
CountIndex(dat, minnobs) ==
    IF IsNaN(minnobs) THEN GroupKeys(dat)
    ELSE SelectSeq(GroupKeys(dat),
                   LAMBDA l : GroupCount(Group(dat, l), "conc_obs") >= minnobs[1])

\* line 57: df['NMB'] = <a Series>.  The Series df_sum['bias'] /
\* df_sum[obscol] carries the RangeIndex of df_sum (reset_index, line 48),
\* df is indexed by location: the assignment aligns the two by label, and a
\* label of df the Series does not have gets NaN
NMBSeries(dat) ==
    [k \in 1..Len(GroupKeys(dat)) |->
        [label |-> <<"int", k - 1>>,
         val |-> Quot(GroupSum(Group(dat, GroupKeys(dat)[k]), "bias"),
                      GroupSum(Group(dat, GroupKeys(dat)[k]), "conc_obs"))]]

SetColumn(series, label) ==
    IF \E k \in 1..Len(series) : series[k].label = label
    THEN series[CHOOSE k \in 1..Len(series) : series[k].label = label].val
    ELSE NaN

\* lines 62-80: IOA of a location of df.  With obsmean = So/No, the sums are
\* taken times No: a row contributes when neither of its terms is NaN
Paired(r) == ~IsNaN(r.conc_mod) /\ ~IsNaN(r.conc_obs)

IOAOf(g) ==
    LET No == GroupCount(g, "conc_obs")
        So == GroupSum(g, "conc_obs")
        abserrsum == SumSkipNa([i \in 1..Len(g) |->
                        IF ~Paired(g[i]) \/ No = 0 THEN NaN
                        ELSE Fin(Abs(g[i].conc_mod[1] * No - So)
                                 + Abs(g[i].conc_obs[1] * No - So))])
        AbsErr == No * GroupSum(g, "AbsErr")
    IN  IF abserrsum = 0
        THEN (IF AbsErr = 0 THEN NaN ELSE <<-1, 0>>)
        ELSE <<abserrsum - AbsErr, abserrsum>>

\* lines 83-85: R2 of a location of df, with modmean = Sm/Nm
R2Of(g) ==
    LET No == GroupCount(g, "conc_obs")
        So == GroupSum(g, "conc_obs")
        Nm == GroupCount(g, "conc_mod")
        Sm == GroupSum(g, "conc_mod")
        diffproduct == SumSkipNa([i \in 1..Len(g) |->
                          IF ~Paired(g[i]) THEN NaN
                          ELSE Fin((g[i].conc_mod[1] * Nm - Sm)
                                   * (g[i].conc_obs[1] * No - So))])
        modvar == SumSkipNa([i \in 1..Len(g) |->
                     IF IsNaN(g[i].conc_mod) THEN NaN
                     ELSE Fin((g[i].conc_mod[1] * Nm - Sm)
                              * (g[i].conc_mod[1] * Nm - Sm))])
        obsvar == SumSkipNa([i \in 1..Len(g) |->
                     IF IsNaN(g[i].conc_obs) THEN NaN
                     ELSE Fin((g[i].conc_obs[1] * No - So)
                              * (g[i].conc_obs[1] * No - So))])
    IN  Quot(diffproduct * diffproduct, modvar * obsvar)

\* lines 46-89, on the table dat of line 43 (a season column is averaged
\* like conc_mod and is left out)
MetricsOf(dat, minnobs) ==
    LET idx == CountIndex(dat, minnobs)
    IN  [k \in 1..Len(idx) |->
            LET g == Group(dat, idx[k])
            IN  [location |-> idx[k],
                 conc_mod |-> GroupMean(g, "conc_mod"),
                 conc_obs |-> GroupMean(g, "conc_obs"),
                 bias |-> GroupMean(g, "bias"),
                 AbsErr |-> GroupMean(g, "AbsErr"),
                 bias2 |-> GroupMean(g, "bias2"),
                 RMSE |-> [sqrt_of |-> GroupMean(g, "bias2")],
                 NMB |-> SetColumn(NMBSeries(dat), <<"str", idx[k]>>),
                 IOA |-> IOAOf(g),
                 R2 |-> R2Of(g)]]

compute_metrics_by_location(table, season_number, minnobs) ==
    LET red == IF season_number <= 0 THEN [exc |-> NoExc, df |-> table]
               ELSE reduce_data_to_season(table, season_number)
    IN  IF red.exc # NoExc THEN red
        ELSE [exc |-> NoExc,
              df |-> MetricsOf(compute_unaggregated_metrics(red.df), minnobs)]

\* the tables, and the arguments of the call
StatRows ==
    [location : {0, 1}, conc_mod : {NaN, Fin(0), Fin(3)},
     conc_obs : {NaN, Fin(1), Fin(2)}]
    \cup [location : {0, 1}, conc_mod : {NaN, Fin(0), Fin(3)},
          conc_obs : {NaN, Fin(1), Fin(2)}, season : {1, 2}]

StatTables ==
    {t \in UNION {[1..n -> StatRows] : n \in 1..MaxStat} :
        \A i, j \in 1..Len(t) : DOMAIN t[i] = DOMAIN t[j]}

InitMetrics ==
    /\ InitCommon
    /\ InitNoId
    /\ InitNoAddCf
    /\ InitNoFun
    /\ InitNoSave
    /\ has_grid = FALSE
    /\ pc = "metrics"
    /\ idat \in StatTables
    /\ mt_args \in [season_number : {-1, 1}, minnobs : {NaN, Fin(1), Fin(2)}]
    /\ mt_ret = <<>>

ComputeMetricsByLocation ==
    /\ pc = "metrics"
    /\ mt_ret' = compute_metrics_by_location(idat, mt_args.season_number,
                                             mt_args.minnobs)
    /\ pc' = "metrics_done"
    /\ UNCHANGED <<stvars, idvars, matchvars, funvars, savevars, idat, mt_args>>

NextMetrics == ComputeMetricsByLocation

SpecMetrics == InitMetrics /\ [][NextMetrics]_vars

(***************************************************************************)
(* cfobs_save.py: save, as called by CFObs.save and by read_obs            *)
(*                                                                         *)
(* A table is the sequence of its column names and has one row.  A file    *)
(* is a sequence of lines: a header line or a row, each with its columns   *)
(* in written order and the number of the save call that wrote it.  The    *)
(* default value of save's argument opened_files is one list object,       *)
(* created when the function is defined and shared by every call that      *)
(* passes no list.                                                         *)
(***************************************************************************)
NoCsv == [exists |-> FALSE, lines |-> <<>>]

\* lines 72-88: the header with the known elements first
get_new_header(old_hdr) ==
    LET elements == <<"ISO8601", "localtime", "location",
                      "original_station_name", "country", "lat", "lon",
                      "latlon_id", "location_gridded", "lat_gridded",
                      "lon_gridded", "obstype", "unit", "value">>
    IN  SelectSeq(elements, LAMBDA e : e \in Range(old_hdr))
        \o SelectSeq(old_hdr, LAMBDA e : e \notin Range(elements))

\* lines 28-42: the write mode; the header is written when it is 'w+'
WriteMode(hasfile, ofile, opened, append) ==
    IF ~hasfile THEN "w+"
    ELSE IF ofile \in Range(opened) \/ append THEN "a"
    ELSE "w+"

\* lines 20-58: save(df, file, iday, append, nfloats, opened_files) with the
\* files on disk, for the call number n.  df[file_hdr.keys()] raises
\* KeyError when the file has a column the table lacks.  The values of the
\* rows, and with them _round_floats, are left out.
save(df, ofile, append, opened, files, n) ==
    LET hasfile  == files[ofile].exists
        wm       == WriteMode(hasfile, ofile, opened, append)
        file_hdr == files[ofile].lines[1].cols
        cols     == IF wm = "a" THEN file_hdr ELSE get_new_header(df)
        row      == [hdr |-> FALSE, cols |-> cols, call |-> n]
        lines    == IF wm = "a" THEN Append(files[ofile].lines, row)
                    ELSE <<[hdr |-> TRUE, cols |-> cols, call |-> n], row>>
    IN  IF wm = "a" /\ ~(Range(file_hdr) \subseteq Range(df))
        THEN [exc |-> Raise("KeyError", "columns", 0), files |-> files,
              opened_files |-> opened, wm |-> wm]
        ELSE [exc |-> NoExc,
              files |-> [files EXCEPT ![ofile] =
                            [exists |-> TRUE, lines |-> lines]],
              opened_files |-> IF ofile \in Range(opened) THEN opened
                               ELSE Append(opened, ofile),
              wm |-> wm]

\* the file names parse_date gives, the tables, and a file left by an
\* earlier run
OFiles == {"obs_01.csv", "obs_02.csv"}
SaveTables == {<<"value", "ISO8601">>, <<"conc_mod", "value", "ISO8601">>}
OldCsv ==
    [exists |-> TRUE,
     lines |-> <<[hdr |-> TRUE, cols |-> <<"ISO8601", "value">>, call |-> 0],
                 [hdr |-> FALSE, cols |-> <<"ISO8601", "value">>, call |-> 0]>>]

\* what the last save call was given and did
LastSave(caller, ofile, append, passed, r, files) ==
    [caller |-> caller, file |-> ofile, append |-> append, passed |-> passed,
     hasfile |-> files[ofile].exists, wm |-> r.wm, exc |-> r.exc]

InitSave ==
    /\ InitCommon
    /\ InitNoId
    /\ InitNoAddCf
    /\ InitNoFun
    /\ InitNoStat
    /\ has_grid = FALSE
    /\ pc = "session"
    /\ fs \in [OFiles -> {NoCsv, OldCsv}]
    /\ default_opened_files = <<>>
    /\ opened_files = <<>>
    /\ append_to_ofile = FALSE
    /\ sv_calls = 0
    /\ sv_last = <<>>

\* cfobs.py lines 68-70: CFObs.save(ofile, **kwargs) passes no opened_files:
\* save uses, and appends to, the list of its default argument
CFObsSave ==
    /\ pc = "session"
    /\ sv_calls < MaxSaves
    /\ \E f \in OFiles, append \in BOOLEAN, df \in SaveTables :
         LET r == save(df, f, append, default_opened_files, fs, sv_calls + 1)
         IN  /\ fs' = r.files
             /\ default_opened_files' = r.opened_files
             /\ sv_last' = LastSave("CFObs.save", f, append, <<>>, r, fs)
    /\ sv_calls' = sv_calls + 1
    /\ UNCHANGED <<pc, stvars, idvars, matchvars, funvars, statvars,
                   opened_files, append_to_ofile>>

\* read_obs.py line 108: opened_files = []
ReadObsBegin ==
    /\ pc = "session"
    /\ sv_calls < MaxSaves
    /\ pc' = "read_obs"
    /\ opened_files' = <<>>
    /\ append_to_ofile' \in BOOLEAN
    /\ UNCHANGED <<stvars, idvars, matchvars, funvars, statvars, fs,
                   default_opened_files, sv_calls, sv_last>>

\* read_obs.py lines 146-147: the save of one day that has rows; an
\* exception ends read_obs
ReadObsSave ==
    /\ pc = "read_obs"
    /\ sv_calls < MaxSaves
    /\ \E f \in OFiles, df \in SaveTables :
         LET r == save(df, f, append_to_ofile, opened_files, fs, sv_calls + 1)
         IN  /\ fs' = r.files
             /\ opened_files' = r.opened_files
             /\ sv_last' = LastSave("read_obs", f, append_to_ofile,
                                    opened_files, r, fs)
             /\ pc' = IF r.exc = NoExc THEN "read_obs" ELSE "session"
    /\ sv_calls' = sv_calls + 1
    /\ UNCHANGED <<stvars, idvars, matchvars, funvars, statvars,
                   default_opened_files, append_to_ofile>>

\* read_obs.py line 154: read_obs returns
ReadObsReturn ==
    /\ pc = "read_obs"
    /\ pc' = "session"
    /\ UNCHANGED <<stvars, idvars, matchvars, funvars, statvars, savevars>>

NextSave == CFObsSave \/ ReadObsBegin \/ ReadObsSave \/ ReadObsReturn

SpecSave == InitSave /\ [][NextSave]_vars

(***************************************************************************)
(* Claims about the stations table.                                        *)
(***************************************************************************)
\* C2: calling update_stations_info again with the same rows and the stations
\* table the first call returned adds no entry to the table and gives every
\* row the same canonical name (location) as the first call.
C2_RegistryIdempotent ==
    (pc = "stations" /\ ncalls > 0) =>
        LET again == update_stations_info(df_arg, st, has_grid)
        IN  /\ again.st = st
            /\ Len(again.df) = Len(df_ret)
            /\ \A i \in 1..Len(df_ret) :
                 /\ again.df[i].latlon_id = df_ret[i].latlon_id
                 /\ again.df[i].location = df_ret[i].location

\* C2 witness: a call that registered two new stations and named its rows
C2_Witness ==
    /\ pc = "stations" /\ ncalls > 0
    /\ Len(st) >= Len(st_arg) + 2
    /\ Len(df_ret) >= 2

C4_CanonicalNamesUnique ==
    pc = "stations" =>
        \A i, j \in 1..Len(st) :
            (st[i].location = st[j].location) <=>
            (st[i].latlon_id = st[j].latlon_id)

(***************************************************************************)
(* Claims about the station identity scalar.                               *)
(***************************************************************************)
\* C5: two distinct rounded (lat, lon) pairs within [-90,90] x [-180,180]
\* never receive the same latlon_id.
C5_LatLonIdInjective ==
    (pc = "id" /\ ids # <<>>) =>
        (ids[1] = ids[2] => coords[1] = coords[2])

\* C5 witness: neighbouring latitudes with longitudes at opposite ends of
\* the range, the pair that a too small factor would make collide
C5_Witness ==
    /\ pc = "id" /\ ids # <<>>
    /\ coords[1] = <<0, -1800000>>
    /\ coords[2] = <<-1, 1800000>>
    /\ ids[1] # ids[2]

(***************************************************************************)
(* Claims about the matcher.                                               *)
(***************************************************************************)
InAddCf == pc \in {"add_cf", "loop", "done", "raised"}

\* add_cf has ended without a table: it raised, or it returned None
Halted == pc = "raised" \/ (pc = "done" /\ result.kind = "None")

RECURSIVE Replay(_, _, _, _)
\* the hours read so far (rds, from number n on) applied to the table df
\* under the mapping mapping
Replay(df, rds, n, mapping) ==
    IF n > Len(rds) THEN [df |-> df, exc |-> NoExc]
    ELSE LET r == add_cf_data_to_df(df, rds[n].idate, rds[n], mapping)
         IN  IF r.exc.type # "none" \/ r.rc # 0 THEN [df |-> r.df, exc |-> r.exc]
             ELSE Replay(r.df, rds, n + 1, mapping)

WithObstype(mapping) == SelectSeq(mapping, LAMBDA e : HasKey(e, "obstype"))

HasRows(e) ==
    \E i \in 1..Len(df_in) : df_in[i].obstype = e.obstype

\* the entry asks for ppbv and lacks mw, or the met fields are not configured
PpbvUnconvertible(e) ==
    /\ HasKey(e, "obstype")
    /\ GetOr(e, "unit", "unknown") = "ppbv"
    /\ (~HasKey(e, "mw") \/ ~(MetVars \subseteq cf_config))
    /\ HasRows(e)

PpbvAssertionRaised ==
    pc = "raised" /\ exc.type = "AssertionError" /\ exc.msg \in {"mw", "conv"}

ConvMw1(dat) == get_conv_ugm3_to_ppbv(dat, "t10m", 1, "ps", 1, 1)

\* the fields read for the hour t
DatOfHour(t) == reads[CHOOSE n \in 1..Len(reads) : reads[n].idate = t].dat

\* C9 (as claimed): with t10m and ps configured and every ppbv entry giving
\* mw, the call does not halt on the conversion, and each row in ugm-3 that
\* a (single) ppbv entry matched holds value * factor of its nearest cell
\* (MW 1) * 1/mw.
C9_PpbvConvertedAsClaimed ==
    (/\ InAddCf
     /\ MetVars \subseteq cf_config
     /\ \A n \in 1..Len(map_config) :
          GetOr(map_config[n], "unit", "unknown") = "ppbv"
              => HasKey(map_config[n], "mw"))
    => /\ pc # "raised"
       /\ (pc = "done" /\ result.kind = "table" /\ Len(map_config) = 1
           /\ HasKey(map_config[1], "obstype") /\ HasKey(map_config[1], "cfvars")
           /\ GetOr(map_config[1], "unit", "unknown") = "ppbv")
          => \A i \in 1..Len(result.df) :
                LET r == result.df[i]
                    cv == ConvMw1(DatOfHour(r.ISO8601))
                IN  (r.obstype = map_config[1].obstype /\ r.unit = "ugm-3")
                    => r.conc_obs =
                         Fin((r.value * cv.values[ArgMinAbs(cv.lat, r.lat)]
                                                 [ArgMinAbs(cv.lon, r.lon)])
                             \div map_config[1].mw)

RECURSIVE SumIgnoringNaN(_, _, _, _)
\* the sum of the values of the variables names at cell (i, j) that are not
\* NaN
SumIgnoringNaN(dat, names, i, j) ==
    IF names = <<>> THEN 0
    ELSE (IF IsNaN(dat[Head(names)][i][j]) THEN 0 ELSE dat[Head(names)][i][j][1])
         + SumIgnoringNaN(dat, Tail(names), i, j)

\* C10 (as claimed): for a (single) entry with several source variables the
\* model value of a matched row is the sum of the values that are not NaN
\* at its nearest cell, wherever the NaN variable stands in the list.
C10_NaNIgnoredAsClaimed ==
    (/\ pc = "done" /\ result.kind = "table"
     /\ Len(map_config) = 1
     /\ HasKey(map_config[1], "obstype") /\ HasKey(map_config[1], "cfvars")
     /\ Len(CfVarList(map_config[1])) > 1)
    => \A i \in 1..Len(result.df) :
          LET r == result.df[i]
              dat == DatOfHour(r.ISO8601)
          IN  r.obstype = map_config[1].obstype
              => r.mod[GetOr(map_config[1], "modcol_suffix", "")] =
                   Fin(SumIgnoringNaN(dat, CfVarList(map_config[1]),
                                      ArgMinAbs(dat["lats"], r.lat),
                                      ArgMinAbs(dat["lons"], r.lon)))

\* the calls of the scenario that have ended and whose reads all succeeded
ScenarioEnded ==
    /\ pc \in {"done", "raised"}
    /\ df_in = ScenarioObs(0, 0)
    /\ \A n \in 1..Len(reads) : reads[n].rc = 0

\* the entry of the mapping for the obstype ot
EntryOf(ot) ==
    map_config[CHOOSE n \in 1..Len(map_config) : map_config[n].obstype = ot]

\* the returned table has one row of obstype ot, with model value m (in the
\* model column of its entry) and observation value o
ReturnedRow(ot, m, o) ==
    /\ pc = "done" /\ result.kind = "table"
    /\ \E i \in 1..Len(result.df) : result.df[i].obstype = ot
    /\ \A i \in 1..Len(result.df) :
         result.df[i].obstype = ot =>
            /\ result.df[i].mod[GetOr(EntryOf(ot), "modcol_suffix", "")] = Fin(m)
            /\ result.df[i].conc_obs = Fin(o)

RawRows(k) == SelectSeq(df_in, LAMBDA r : GroupKey(r) = k)

NameCount(loc, name) ==
    Cardinality({i \in 1..Len(df_in) :
        df_in[i].location = loc /\ df_in[i].original_station_name = name})

\* C13 (as claimed): the dropped column restored for a location holds the
\* value that occurs most often among the raw rows of that location (and so
\* a value that occurs there).
C13_MostFrequentAsClaimed ==
    (pc = "done" /\ result.kind = "table") =>
        \A j \in 1..Len(result.df) :
            LET loc == result.df[j].location
                name == result.df[j].original_station_name
            IN  /\ NameCount(loc, name) > 0
                /\ \A i \in 1..Len(df_in) :
                     df_in[i].location = loc =>
                        NameCount(loc, df_in[i].original_station_name)
                            <= NameCount(loc, name)

\* C14 (as claimed): no step of add_cf changes a value of the original
\* columns of the caller's table; the time stamps it was called with are
\* the time stamps it holds afterwards.
C14_InputUnchangedAsClaimed == [][df_in' = df_in]_vars

\* the label the claim gives a season number
SeasonLabel(n) ==
    CASE n = 1 -> "DJF" [] n = 2 -> "MAM" [] n = 3 -> "JJA" [] n = 4 -> "SON"
      [] OTHER -> "?"

\* C15 (as claimed): every month gets a season number (month % 12 + 3) // 3
\* in 1..4, and get_season_name gives each season number its label: 1 DJF,
\* 2 MAM, 3 JJA, 4 SON.
C15_SeasonLabelsAsClaimed ==
    pc = "season_named" =>
        \A i \in 1..Len(dates) :
            /\ seasons[i] = ((dates[i][1] % 12) + 3) \div 3
            /\ seasons[i] \in 1..4
            /\ season_names[i] = SeasonLabel(seasons[i])

\* C16: when to_ppbv returns, every selected row whose unit is ppmv or ppm
\* holds 1000 times its value, and every row whose unit is none of ugm-3,
\* ppmv, ppm and every row outside the index is as it was.
C16_PpmTimes1000 ==
    (pc = "to_ppbv_done" /\ ppbv_ret.exc = NoExc) =>
        \A i \in 1..Len(ppbv_df) :
            /\ (/\ i \in ppbv_idx
                /\ ppbv_df[i].unit \in {"ppmv", "ppm"}
                /\ ~IsNaN(ppbv_df[i].conc_obs))
               => ppbv_ret.df[i].conc_obs = Fin(1000 * ppbv_df[i].conc_obs[1])
            /\ (i \notin ppbv_idx
                \/ ppbv_df[i].unit \notin {"ugm-3", "ppmv", "ppm"})
               => ppbv_ret.df[i] = ppbv_df[i]

\* C16 witness: a selected ppmv row went from 1 to 1000 while a ppm row
\* outside the index kept its value
C16_Witness ==
    /\ pc = "to_ppbv_done" /\ ppbv_ret.exc = NoExc
    /\ Len(ppbv_df) = 2 /\ ppbv_idx = {1}
    /\ ppbv_df[1].unit = "ppmv" /\ ppbv_df[1].conc_obs = Fin(1)
    /\ ppbv_ret.df[1].conc_obs = Fin(1000)
    /\ ppbv_df[2].unit = "ppm" /\ ppbv_ret.df[2].conc_obs = Fin(3)

\* the collection has both the template key and the vars key
Complete(c) == HasKey(c.icol, "template") /\ HasKey(c.icol, "vars")

\* C17: when the file of every collection that has template and vars can be
\* opened, read_cf_data_2d returns rc = 0 and dat holds the variables of
\* exactly these collections (and the coordinates, if one was read): a
\* collection without template or without vars is skipped, wherever it
\* stands.
C17_IncompleteCollectionSkipped ==
    (/\ pc = "read_cf_done"
     /\ \A n \in 1..Len(rd_config) :
          Complete(rd_config[n]) => rd_config[n].file.readable)
    => /\ rd_ret.rc = 0
       /\ DOMAIN rd_ret.dat \ {"lons", "lats"}
            = UNION {DOMAIN rd_config[n].icol["vars"] :
                        n \in {m \in 1..Len(rd_config) : Complete(rd_config[m])}}
       /\ (\E n \in 1..Len(rd_config) : Complete(rd_config[n]))
            => {"lons", "lats"} \subseteq DOMAIN rd_ret.dat

\* C17 witness: the first collection has no template, the second was read
C17_Witness ==
    /\ pc = "read_cf_done"
    /\ Len(rd_config) = 2
    /\ ~HasKey(rd_config[1].icol, "template")
    /\ Complete(rd_config[2]) /\ rd_config[2].name = "chem"
    /\ rd_ret.rc = 0
    /\ "o3" \in DOMAIN rd_ret.dat

RECURSIVE SumOfSteps(_, _)
\* the sum of the values of the steps of ds whose numbers are in S
SumOfSteps(ds, S) ==
    IF S = {} THEN 0
    ELSE LET i == CHOOSE x \in S : TRUE
         IN  ds[i].val + SumOfSteps(ds, S \ {i})

\* the steps of the collection's dataset within [idate - before,
\* idate + after]
StepsInWindow(c) ==
    {i \in 1..Len(c.file.ds) :
        /\ rd_idate - c.icol[AVG_LABEL_BEFORE] <= c.file.ds[i].time
        /\ c.file.ds[i].time <= rd_idate + c.icol[AVG_LABEL_AFTER]}

\* C18: after a successful read, a variable of a collection whose dataset
\* has more than one time step holds (times its scal) the average over the
\* steps in [idate - before, idate + after] if the collection gives both
\* offsets, and otherwise the value of the step nearest to idate; the
\* 24-step series of constant value 5 with offsets 12 and 12 gives 5.
C18_WindowOrNearest ==
    (pc = "read_cf_done" /\ rd_ret.rc = 0) =>
        \A n \in 1..Len(rd_config) :
            LET c == rd_config[n]
            IN  (Complete(c) /\ Len(c.file.ds) > 1) =>
                \A v \in DOMAIN c.icol["vars"] :
                    LET scal == c.icol["vars"][v]
                        x == rd_ret.dat[v]
                    IN  IF HasKey(c.icol, AVG_LABEL_BEFORE)
                           /\ HasKey(c.icol, AVG_LABEL_AFTER)
                        THEN /\ x[2] = Cardinality(StepsInWindow(c))
                             /\ x[1] = scal * SumOfSteps(c.file.ds, StepsInWindow(c))
                             /\ (/\ c.file.ds = DaySeries /\ rd_idate = 12
                                 /\ c.icol[AVG_LABEL_BEFORE] = 12
                                 /\ c.icol[AVG_LABEL_AFTER] = 12)
                                => x[2] = 24 /\ x[1] = scal * 5 * x[2]
                        ELSE /\ x[2] = 1
                             /\ \E i \in 1..Len(c.file.ds) :
                                  /\ x[1] = scal * c.file.ds[i].val
                                  /\ \A j \in 1..Len(c.file.ds) :
                                       Abs(c.file.ds[i].time - rd_idate)
                                         <= Abs(c.file.ds[j].time - rd_idate)

\* C18 witness: the 24-step series of value 5, offsets 12 and 12, read at
\* hour 12: the variable of scal 1 holds the mean 5 of 24 steps
C18_Witness ==
    /\ pc = "read_cf_done" /\ rd_ret.rc = 0
    /\ Len(rd_config) = 1 /\ Complete(rd_config[1])
    /\ rd_config[1].name = "met"
    /\ rd_config[1].file.ds = DaySeries /\ rd_idate = 12
    /\ HasKey(rd_config[1].icol, AVG_LABEL_AFTER)
    /\ rd_config[1].icol[AVG_LABEL_BEFORE] = 12
    /\ rd_ret.dat["t10m"] = <<120, 24>>

\* C19 (as claimed): the table update_stations_info returns has one row for
\* each row it was given, each with the canonical name the stations table
\* holds for its latlon_id.
C19_EveryRowJoinedAsClaimed ==
    (pc = "stations" /\ ncalls > 0) =>
        /\ Len(df_ret) = Len(df_arg)
        /\ \A j \in 1..Len(df_ret) :
             \E i \in 1..Len(st) :
                /\ st[i].latlon_id = df_ret[j].latlon_id
                /\ st[i].location = df_ret[j].location

\* C20 (as claimed): whatever calls of update_stations_info came before, the
\* file write_table_of_stations writes has no row tagged 'unknown' (the
\* placeholder with coordinates -999).
C20_NoPlaceholderWrittenAsClaimed ==
    pc = "written" =>
        \A i \in 1..Len(st_file.rows) :
            /\ st_file.rows[i]["original_station_name"] # UnknownName
            /\ st_file.rows[i]["location"] # UnknownLocation

(***************************************************************************)
(* Claims about compute_metrics_by_location.                               *)
(***************************************************************************)
\* the rows the metrics are computed on (line 38 or 40), for a call that
\* returned a table
MetricsReturned == pc = "metrics_done" /\ mt_ret.exc = NoExc

MetricsDat ==
    IF mt_args.season_number <= 0 THEN idat
    ELSE SelectSeq(idat, LAMBDA r : r.season = mt_args.season_number)

PairsOf(loc) == SelectSeq(Group(MetricsDat, loc), Paired)

\* C21 (as claimed): compute_metrics_by_location returns a row for a location
\* only if the location has at least minnobs rows in which both the model
\* value and the observation value are valid (non-NaN).
C21_OnlyPairedCountedAsClaimed ==
    (MetricsReturned /\ ~IsNaN(mt_args.minnobs)) =>
        \A k \in 1..Len(mt_ret.df) :
            Len(PairsOf(mt_ret.df[k].location)) >= mt_args.minnobs[1]

\* C22 (as claimed): for every location in the output, NMB equals the sum of
\* the location's per-row bias (model - obs) divided by the sum of the
\* location's observation values.
C22_NMBOfLocationAsClaimed ==
    MetricsReturned =>
        \A k \in 1..Len(mt_ret.df) :
            LET g == compute_unaggregated_metrics(
                         Group(MetricsDat, mt_ret.df[k].location))
            IN  mt_ret.df[k].NMB = Quot(GroupSum(g, "bias"),
                                        GroupSum(g, "conc_obs"))

WritersOf(r, s) ==
    {k \in 1..Len(map_config) :
        /\ HasKey(map_config[k], "obstype")
        /\ map_config[k].obstype = r.obstype
        /\ HasKey(map_config[k], "cfvars")
        /\ GetOr(map_config[k], "modcol_suffix", "") = s}

RECURSIVE CellAcc(_, _, _, _, _)
\* the value an entry accumulates from acc at cell (i, j) over names
CellAcc(acc, dat, names, i, j) ==
    IF names = <<>> THEN acc
    ELSE CellAcc(AddFloat(IF IsNaN(acc) THEN Fin(0) ELSE acc,
                          dat[Head(names)][i][j]),
                 dat, Tail(names), i, j)

NoCfvars(e) == HasKey(e, "obstype") /\ ~HasKey(e, "cfvars")

\* C25 (as claimed): a mapping entry that has an obstype but no cfvars is
\* skipped: the call does not abort, the remaining entries are applied, and
\* the entry leaves the model-value, observation-in-model-units and
\* unit-label columns of every row as they were, i.e. these columns and the
\* exception (if any) are those of the same reads under the mapping without
\* such entries.
C25_NoCfvarsSkippedAsClaimed ==
    pc \in {"loop", "done", "raised"} =>
        LET r == Replay(WithNewColumns(Aggregate(df_in)), reads, 1,
                        SelectSeq(map_config, LAMBDA e : ~NoCfvars(e)))
        IN  /\ exc.type = r.exc.type
            /\ exc.msg = r.exc.msg
            /\ \A i \in 1..Len(df_cf) :
                 /\ df_cf[i].conc_obs = r.df[i].conc_obs
                 /\ df_cf[i].conc_unit = r.df[i].conc_unit
                 /\ \A s \in DOMAIN r.df[i].mod :
                      df_cf[i].mod[s] = r.df[i].mod[s]

\* the grid indexes at minimum distance from x, and the lowest of them
Nearest(grid, x) ==
    {k \in 1..Len(grid) :
        \A l \in 1..Len(grid) : Abs(grid[k] - x) <= Abs(grid[l] - x)}

LowestNearest(grid, x) ==
    CHOOSE k \in Nearest(grid, x) : \A l \in Nearest(grid, x) : k <= l

C29_UnknownUnitFlaggedAsClaimed ==
    (pc = "done" /\ result.kind = "table") =>
        \A i \in 1..Len(result.df) :
            LET r == result.df[i]
            IN  (/\ r.unit \notin {"ugm-3", "ppmv", "ppm", "ppbv"}
                 /\ \E s \in DOMAIN r.mod : WritersOf(r, s) # {}) =>
                    /\ r.conc_obs = Fin(r.value)
                    /\ r.conc_unit = "unknown"

Reordered(p) == [i \in 1..Len(df_arg) |-> df_arg[p[i]]]

IdOfRow(r) == LatLonId(Round4(r.lat), Round4(r.lon))

\* C26: the result of update_stations_info does not depend on the order of
\* the input rows.  For every permutation of the rows of a call, against the
\* same stations table, the call gives the same stations table and the same
\* canonical name to every row, and the original station name registered for
\* a new identity is the least of the names the rows report for it.
C26_OrderIndependent ==
    (pc = "stations" /\ ncalls > 0) =>
        /\ \A p \in Permutations(1..Len(df_arg)) :
             LET r == update_stations_info(Reordered(p), st_arg, has_grid)
             IN  /\ r.st = st
                 /\ Range(r.df) = Range(df_ret)
        /\ \A k \in 1..Len(st) :
             LET names == {df_arg[i].original_station_name :
                             i \in {j \in 1..Len(df_arg) :
                                      IdOfRow(df_arg[j]) = st[k].latlon_id}}
             IN  (\A j \in 1..Len(st_arg) :
                      st_arg[j].latlon_id # st[k].latlon_id) =>
                    /\ st[k].original_station_name \in names
                    /\ \A n \in names : st[k].original_station_name <= n

\* a call registered a station that its rows report under two names, the
\* first row not under the least of them
C26_Witness ==
    /\ pc = "stations" /\ ncalls > 0
    /\ Len(df_arg) >= 2
    /\ IdOfRow(df_arg[1]) = IdOfRow(df_arg[2])
    /\ df_arg[1].original_station_name > df_arg[2].original_station_name
    /\ \E k \in 1..Len(st) :
         /\ st[k].latlon_id = IdOfRow(df_arg[1])
         /\ st[k].original_station_name = df_arg[2].original_station_name
         /\ \A j \in 1..Len(st_arg) : st_arg[j].latlon_id # st[k].latlon_id

(***************************************************************************)
(* Claims about save.                                                      *)
(***************************************************************************)
\* C28 (as claimed): save appends to an existing file, without header, only
\* if append is enabled or the file was written earlier in the same call
\* sequence, the one that passed its opened_files list; the first write to
\* an existing file with append disabled overwrites it with a fresh header,
\* also when an earlier, separate save call wrote the same file.
C28_AppendOnlyWithinCallSequenceAsClaimed ==
    (sv_calls > 0 /\ sv_last.hasfile) =>
        IF sv_last.append \/ sv_last.file \in Range(sv_last.passed)
        THEN sv_last.wm = "a"
        ELSE /\ sv_last.wm = "w+"
             /\ fs[sv_last.file].lines[1].hdr
             /\ \A i \in 1..Len(fs[sv_last.file].lines) :
                  fs[sv_last.file].lines[i].call = sv_calls

=============================================================================
